---- MODULE Spec2Model ----
(***************************************************************************)
(* srccat: the directory walk of listFiles, the per-file worker           *)
(* goroutines running processFile, the progress reporter goroutine        *)
(* showProgress and the exclusion rules of shouldExclude (src/main.go).   *)
(*                                                                         *)
(* An entry of the scanned tree is the sequence of the names below the    *)
(* scan root: <<>> is the root, <<"src", "main.go">> is src/main.go.      *)
(* The content of a file is kept as its length and the 1-based offset of  *)
(* its first zero byte (0: none), which is all that the size check and    *)
(* isBinary read of it.                                                   *)
(***************************************************************************)
EXTENDS Integers, Sequences, FiniteSets, TLC

VARIABLES
    baseName,               \* base name of baseDir, what info.Name() gives for the root
    format,                 \* "text", "json" or "list"
    customExcludePatterns,  \* the compiled --exclude globs, in order
    ignorePatterns,         \* wt.Excludes, the patterns handed to gitignore.NewMatcher
    disk,                   \* the regular files of the tree: entry -> content
    probe,                  \* arguments of a call of shouldExclude taken by itself
    verdict,                \* what that call returned
    cpc,                    \* where main/listFiles is
    todo,                   \* entries filepath.Walk has still to visit, next first
    walkErr,                \* the walk function was called with an error and returned it
    ret,                    \* what listFiles returned, "none" before
    wpc,                    \* per file: where its processFile goroutine is
    wfc,                    \* per file: the worker's local fileContent
    wold,                   \* per file: the slice value the worker's append read
    mu,                     \* sync.Mutex: TRUE when locked
    wg,                     \* sync.WaitGroup counter
    files,                  \* the shared result slice
    chanClosed,             \* progressChan has been closed
    rpc,                    \* where showProgress is
    count,                  \* showProgress's count
    notes,                  \* the values showProgress has received, in order
    stderrLines,            \* progress lines written to stderr, in order
    formatter,              \* the output function listFiles called, "none" before
    output                  \* the slice that was handed to it

vars == <<baseName, format, customExcludePatterns, ignorePatterns, disk, probe,
          verdict, cpc, todo,
          walkErr, ret, wpc, wfc, wold, mu, wg, files, chanClosed, rpc, count, notes,
          stderrLines, formatter, output>>

-----------------------------------------------------------------------------
(* Bounds of the model.                                                    *)

\* at most this many of the optional files are in the scanned tree
MaxFiles == 2

-----------------------------------------------------------------------------
(* Program constants.                                                      *)

maxFileSize == 1 * 1024 * 1024

\* isBinary looks at no more than this many leading bytes
BinarySample == 1024

\* showProgress prints on every ProgressEvery-th notification
ProgressEvery == 100

PathSeparator == "/"

excludedDirs ==
    << ".git", "node_modules", "build", "dist", "out", ".cache", ".tmp",
       ".vscode", ".idea", ".next", "public", ".terraform" >>

excludedPatterns ==
    << ".json", ".log", ".bak", "~", ".DS_Store",
       "package-lock.json", "yarn.lock", ".d.ts", "config.mjs",
       ".lock.hcl", ".ico", ".tfstate",
       ".backup", ".pptx", ".ppt", ".doc", ".docx", ".xls", ".xlsx", ".mod", ".sum" >>

-----------------------------------------------------------------------------
(* Strings.                                                                *)

HasPrefix(s, prefix) ==
    Len(s) >= Len(prefix) /\ SubSeq(s, 1, Len(prefix)) = prefix

HasSuffix(s, suffix) ==
    Len(s) >= Len(suffix) /\ SubSeq(s, Len(s) - Len(suffix) + 1, Len(s)) = suffix

\* glob.Compile(pattern) without separators, then Match: "*" stands for any run
\* of characters (the path separator included), "?" for any one character,
\* every other character for itself.
RECURSIVE GlobMatchFrom(_, _, _, _)
GlobMatchFrom(pattern, s, i, j) ==
    IF i > Len(pattern)
    THEN j > Len(s)
    ELSE LET c == SubSeq(pattern, i, i) IN
         IF c = "*"
         THEN \E k \in j..(Len(s) + 1) : GlobMatchFrom(pattern, s, i + 1, k)
         ELSE /\ j <= Len(s)
              /\ (c = "?" \/ SubSeq(s, j, j) = c)
              /\ GlobMatchFrom(pattern, s, i + 1, j + 1)

GlobMatch(pattern, s) == GlobMatchFrom(pattern, s, 1, 1)

\* filepath.Match(pattern, name), by which a gitignore pattern without "/" is
\* matched: "*" stands for any run of characters other than the separator, "?"
\* for one such character. The path is handed to the matcher as one element
\* ([]string{relativePath}), so it is matched whole.
RECURSIVE NameMatchFrom(_, _, _, _)
NameMatchFrom(pattern, s, i, j) ==
    IF i > Len(pattern)
    THEN j > Len(s)
    ELSE LET c == SubSeq(pattern, i, i) IN
         IF c = "*"
         THEN \E k \in j..(Len(s) + 1) :
                 /\ \A m \in j..(k - 1) : SubSeq(s, m, m) # PathSeparator
                 /\ NameMatchFrom(pattern, s, i + 1, k)
         ELSE /\ j <= Len(s)
              /\ \/ c = "?" /\ SubSeq(s, j, j) # PathSeparator
                 \/ SubSeq(s, j, j) = c
              /\ NameMatchFrom(pattern, s, i + 1, j + 1)

NameMatch(pattern, s) == NameMatchFrom(pattern, s, 1, 1)

\* gitignore.Matcher.Match(path, false): the last pattern that matches the path
\* decides; a negated pattern ("!...") includes again, no match means not ignored.
RECURSIVE MatcherMatchFrom(_, _, _)
MatcherMatchFrom(patterns, relativePath, n) ==
    IF n = 0
    THEN FALSE
    ELSE IF NameMatch(patterns[n].glob, relativePath)
         THEN ~patterns[n].negate
         ELSE MatcherMatchFrom(patterns, relativePath, n - 1)

MatcherMatch(patterns, relativePath) ==
    MatcherMatchFrom(patterns, relativePath, Len(patterns))

-----------------------------------------------------------------------------
(* The exclusion rules.                                                    *)

ExcludedDirRule(name, relativePath) ==
    \E i \in 1..Len(excludedDirs) :
        \/ name = excludedDirs[i]
        \/ HasPrefix(relativePath, excludedDirs[i] \o PathSeparator)

ExcludedSuffixRule(name) ==
    \E i \in 1..Len(excludedPatterns) : HasSuffix(name, excludedPatterns[i])

\* variant: the rule as a test on the end of the name
EnvSuffixRule(name) == HasSuffix(name, ".env")

EnvPrefixRule(name) == HasPrefix(name, ".env")

GitignoreNameRule(name) == name = ".gitignore"

\* the custom patterns never consulted
CustomPatternRuleNever(patterns, relativePath) == FALSE

\* the loop over customExcludePatterns: pattern.Match(relativePath)
CustomPatternRule(patterns, relativePath) ==
    \E i \in 1..Len(patterns) : GlobMatch(patterns[i], relativePath)

\* variant: the ignore matcher has the last word on a path one of its patterns
\* matches, over the rules before it
shouldExcludeMatcherDecides(name, relativePath, custom, matcherPatterns) ==
    IF \E n \in 1..Len(matcherPatterns) :
           NameMatch(matcherPatterns[n].glob, relativePath)
    THEN MatcherMatch(matcherPatterns, relativePath)
    ELSE \/ ExcludedDirRule(name, relativePath)
         \/ ExcludedSuffixRule(name)
         \/ EnvPrefixRule(name)
         \/ GitignoreNameRule(name)
         \/ CustomPatternRule(custom, relativePath)

shouldExcludeWith(name, relativePath, custom, matcherPatterns) ==
    \/ ExcludedDirRule(name, relativePath)
    \/ ExcludedSuffixRule(name)
    \/ EnvPrefixRule(name)
    \/ GitignoreNameRule(name)
    \/ CustomPatternRule(custom, relativePath)
    \/ MatcherMatch(matcherPatterns, relativePath)

shouldExclude(name, relativePath) ==
    shouldExcludeWith(name, relativePath, customExcludePatterns, ignorePatterns)

\* variant: a scan of the whole content, without the cap
isBinaryUncapped(content) == content.nul \in 1..content.len

\* isBinary: a zero byte among the first BinarySample bytes
isBinary(content) ==
    LET n == IF content.len > BinarySample THEN BinarySample ELSE content.len
    IN  content.nul \in 1..n

-----------------------------------------------------------------------------
(* The scanned tree.                                                       *)

\* the base names the scan root may have
RootNames == {"proj", "out", ".env.ci"}

Formats == {"text", "json", "list"}

\* the --exclude lists a run may be started with
CustomChoices == { <<>>, <<"*.css">>, <<"notes.css">> }

\* what wt.Excludes holds: repo.Worktree() hands back a Worktree whose Excludes
\* nobody has set, and without a repository ignorePatterns stays nil
IgnoreChoices == { <<>> }

Root == <<>>

Dirs == { Root, <<"build">>, <<"src">>, <<"src", "dist">> }

\* the names a directory may hold, in the order ioutil's sorted listing gives
DirNames(dir) ==
    CASE dir = Root -> << ".gitignore", "a.txt", "big.bin", "build", "img.png",
                          "secrets.env", "src", "trace.log" >>
      [] dir = <<"build">> -> << "out.o" >>
      [] dir = <<"src">> -> << "debug.log", "dist", "main.go", "notes.css" >>
      [] dir = <<"src", "dist">> -> << "x.go" >>

\* files every scanned tree of the model holds
FixedFiles ==
    { <<".gitignore">>, <<"build", "out.o">>, <<"src", "debug.log">>,
      <<"src", "dist", "x.go">> }

\* files a scanned tree of the model may hold
OptionalFiles ==
    { <<"a.txt">>, <<"big.bin">>, <<"img.png">>, <<"src", "main.go">>,
      <<"src", "notes.css">> }

\* files only the tree of the list scenario holds
ScenarioFiles == { <<"secrets.env">>, <<"trace.log">> }

AllFiles == FixedFiles \cup OptionalFiles \cup ScenarioFiles

Text(n) == [len |-> n, nul |-> 0]

\* what each file holds when the run starts
InitialContent(file) ==
    CASE file = <<"big.bin">> -> Text(maxFileSize + 1)
      [] file = <<"img.png">> -> [len |-> 10, nul |-> 3]
      [] file = <<"src", "main.go">> -> [len |-> maxFileSize, nul |-> BinarySample + 1]
      [] file = <<"build", "out.o">> -> [len |-> 8, nul |-> 1]
      [] OTHER -> Text(5)

\* FileContent.Content left at its zero value
NoContent == Text(0)

\* info.IsDir(): a directory is in the tree when a file of the tree lies below it
IsDir(entry) ==
    /\ entry \in Dirs
    /\ \/ entry = Root
       \/ \E f \in DOMAIN disk :
             Len(f) > Len(entry) /\ SubSeq(f, 1, Len(entry)) = entry

\* variant: the root entry under the name "." of its relative path
NameOfRelative(entry) == IF entry = Root THEN "." ELSE entry[Len(entry)]

\* info.Name()
Name(entry) == IF entry = Root THEN baseName ELSE entry[Len(entry)]

\* filepath.Rel(baseDir, path)
RECURSIVE Join(_)
Join(entry) ==
    IF Len(entry) = 1
    THEN entry[1]
    ELSE Join(SubSeq(entry, 1, Len(entry) - 1)) \o PathSeparator \o entry[Len(entry)]

Rel(entry) == IF entry = Root THEN "." ELSE Join(entry)

\* the entries of a directory that exist, in walk order
Children(dir) ==
    LET names == DirNames(dir)
        all == [i \in 1..Len(names) |-> dir \o <<names[i]>>]
        Exists(e) == IsDir(e) \/ e \in DOMAIN disk
    IN  SelectSeq(all, Exists)

-----------------------------------------------------------------------------
(* Initial state: listFiles is about to be called.                         *)

\* no call of shouldExclude is looked at by itself
NoProbe ==
    [name |-> "", relativePath |-> "", custom |-> <<>>, matcher |-> <<>>,
     moreCustom |-> <<>>, moreMatcher |-> <<>>]

\* shouldExclude has not returned
NoVerdict == [evaluated |-> FALSE, before |-> FALSE, after |-> FALSE]

\* listFiles has not started: nothing dispatched, nothing collected
Start ==
    /\ cpc = "open"
    /\ todo = <<>>
    /\ walkErr = FALSE
    /\ ret = "none"
    /\ wpc = [f \in AllFiles |-> "none"]
    /\ wfc = [f \in AllFiles |-> [Path |-> "", Content |-> NoContent]]
    /\ wold = [f \in AllFiles |-> <<>>]
    /\ mu = FALSE
    /\ wg = 0
    /\ files = <<>>
    /\ chanClosed = FALSE
    /\ rpc = "none"
    /\ count = 0
    /\ notes = <<>>
    /\ stderrLines = <<>>
    /\ formatter = "none"
    /\ output = <<>>

Init ==
    /\ baseName \in RootNames
    /\ format \in Formats
    /\ customExcludePatterns \in CustomChoices
    /\ ignorePatterns \in IgnoreChoices
    /\ \E present \in SUBSET OptionalFiles :
          /\ Cardinality(present) <= MaxFiles
          /\ disk = [f \in FixedFiles \cup present |-> InitialContent(f)]
    /\ probe = NoProbe
    /\ verdict = NoVerdict
    /\ Start

-----------------------------------------------------------------------------
(* Groups of variables.                                                    *)

inputs == <<baseName, format, customExcludePatterns, ignorePatterns, disk, probe,
            verdict>>
outs == <<formatter, output>>

-----------------------------------------------------------------------------
(* main and listFiles.                                                     *)

\* git.PlainOpen and repo.Worktree; on success the reporter goroutine is started
\* and the walk begins at baseDir
OpenRepo(ok) ==
    /\ cpc = "open"
    /\ IF ok
       THEN /\ cpc' = "walk"
            /\ rpc' = "recv"
            /\ todo' = << Root >>
            /\ ret' = ret
       ELSE /\ cpc' = "failed"
            /\ ret' = "openError"
            /\ UNCHANGED <<rpc, todo>>
    /\ UNCHANGED <<inputs, walkErr, wpc, wfc, wold, mu, wg, files, chanClosed, count,
                   notes, stderrLines, outs>>

\* go func() { defer wg.Done(); processFile(...) }() after wg.Add(1)
Dispatch(entry) ==
    /\ wg' = wg + 1
    /\ wpc' = [wpc EXCEPT ![entry] = "stat"]

\* nil returned for an excluded directory instead of SkipDir: the walk descends
AfterExcludedDescends(entry) ==
    IF IsDir(entry) THEN Children(entry) \o Tail(todo) ELSE Tail(todo)

\* what is left to visit once the walk function has excluded the entry:
\* SkipDir for a directory, nil for a file, and nothing below it either way
AfterExcluded(entry) == Tail(todo)

\* one call of the walk function on the next entry, err == nil
WalkVisit ==
    /\ cpc = "walk"
    /\ todo # <<>>
    /\ LET entry == Head(todo) IN
       IF shouldExclude(Name(entry), Rel(entry))
       THEN /\ todo' = AfterExcluded(entry)
            /\ UNCHANGED <<wg, wpc>>
       ELSE IF IsDir(entry)
            THEN /\ todo' = Children(entry) \o Tail(todo)
                 /\ UNCHANGED <<wg, wpc>>
            ELSE /\ todo' = Tail(todo)
                 /\ Dispatch(entry)
    /\ UNCHANGED <<inputs, cpc, walkErr, ret, wfc, wold, mu, files, chanClosed, rpc,
                   count, notes, stderrLines, outs>>

\* the walk function returns an error (it is called with err != nil because the
\* next entry could not be read, or filepath.Rel fails): nothing more is visited
WalkError ==
    /\ cpc = "walk"
    /\ todo # <<>>
    /\ walkErr' = TRUE
    /\ todo' = <<>>
    /\ UNCHANGED <<inputs, cpc, ret, wpc, wfc, wold, mu, wg, files, chanClosed, rpc,
                   count, notes, stderrLines, outs>>

\* the error of filepath.Walk ignored
WalkFailedNever == FALSE

\* the test on what filepath.Walk returned
WalkFailed == walkErr

\* variant: a return on the error path that closes progressChan on its way out
WalkReturnClosing ==
    /\ cpc = "walk"
    /\ todo = <<>>
    /\ IF WalkFailed
       THEN cpc' = "failed" /\ ret' = "walkError" /\ chanClosed' = TRUE
       ELSE cpc' = "wait" /\ ret' = ret /\ chanClosed' = chanClosed
    /\ UNCHANGED <<inputs, todo, walkErr, wpc, wfc, wold, mu, wg, files, rpc, count,
                   notes, stderrLines, outs>>

\* filepath.Walk returns; on an error listFiles returns it wrapped
WalkReturn ==
    /\ cpc = "walk"
    /\ todo = <<>>
    /\ IF WalkFailed
       THEN cpc' = "failed" /\ ret' = "walkError"
       ELSE cpc' = "wait" /\ ret' = ret
    /\ UNCHANGED <<inputs, todo, walkErr, wpc, wfc, wold, mu, wg, files, chanClosed,
                   rpc, count, notes, stderrLines, outs>>

\* wg.Wait() left out: the coordinator goes on at once
WaitReturnsAtOnce == TRUE

\* when wg.Wait() returns
WaitReturns == wg = 0

\* wg.Wait()
WaitWorkers ==
    /\ cpc = "wait"
    /\ WaitReturns
    /\ cpc' = "close"
    /\ UNCHANGED <<inputs, todo, walkErr, ret, wpc, wfc, wold, mu, wg, files,
                   chanClosed, rpc, count, notes, stderrLines, outs>>

\* close(progressChan)
CloseProgress ==
    /\ cpc = "close"
    /\ chanClosed' = TRUE
    /\ cpc' = "recvDone"
    /\ UNCHANGED <<inputs, todo, walkErr, ret, wpc, wfc, wold, mu, wg, files, rpc,
                   count, notes, stderrLines, outs>>

\* <-doneChan meets the reporter's doneChan <- true (doneChan is unbuffered)
ReceiveDone ==
    /\ cpc = "recvDone"
    /\ rpc = "signal"
    /\ cpc' = "format"
    /\ rpc' = "exit"
    /\ UNCHANGED <<inputs, todo, walkErr, ret, wpc, wfc, wold, mu, wg, files,
                   chanClosed, count, notes, stderrLines, outs>>

FormatterFor(fmt) ==
    CASE fmt = "json" -> "outputJSON"
      [] fmt = "list" -> "outputList"
      [] OTHER -> "outputText"

\* the switch on format: files is handed to the output function, whose result
\* listFiles returns. (When listFiles has returned, main ends the process; the
\* goroutines then simply take no further step.)
CallFormatter ==
    /\ cpc = "format"
    /\ formatter' = FormatterFor(format)
    /\ output' = files
    /\ cpc' = "returned"
    /\ ret' = "formatter"
    /\ UNCHANGED <<inputs, todo, walkErr, wpc, wfc, wold, mu, wg, files, chanClosed,
                   rpc, count, notes, stderrLines>>

-----------------------------------------------------------------------------
(* processFile, one goroutine per dispatched file.                         *)

\* where a worker that has returned from processFile stands: at the end of the
\* function, or at one of its three early returns
Skipped == {"skipStat", "skipSize", "skipRead"}
Returned == {"returned"} \cup Skipped

\* the goroutine without its deferred wg.Done()
ReturnWithoutDone(file, at) ==
    /\ wpc' = [wpc EXCEPT ![file] = at]
    /\ wg' = wg

\* the deferred wg.Done() of the goroutine, run when processFile returns
Return(file, at) ==
    /\ wpc' = [wpc EXCEPT ![file] = at]
    /\ wg' = wg - 1

\* wg.Done() called at the end of processFile only, not deferred: an early
\* return leaves the wait group counter up
SkipReturnWithoutDone(file, at) ==
    /\ wpc' = [wpc EXCEPT ![file] = at]
    /\ wg' = wg

\* an early return of processFile: the failure is logged, nothing else happens
SkipReturn(file, at) == Return(file, at)

\* what processFile attaches after os.ReadFile gave content
ContentToAttach(content) == IF isBinary(content) THEN NoContent ELSE content

\* variant: a comparison that also turns away a file of exactly maxFileSize
OversizeInclusive(size) == size >= maxFileSize

\* the test on info.Size()
Oversize(size) == size > maxFileSize

\* variant: a worker that is told to read whatever the format
readContentAlways == TRUE

\* the readContent argument the walk gives to processFile
readContent == format # "list"

\* os.Stat, the size check, and fileContent := FileContent{Path: relativePath}
Stat(file, ok) ==
    /\ wpc[file] = "stat"
    /\ IF ~ok
       THEN SkipReturn(file, "skipStat") /\ UNCHANGED wfc
       ELSE IF Oversize(disk[file].len)
            THEN SkipReturn(file, "skipSize") /\ UNCHANGED wfc
            ELSE /\ wfc' = [wfc EXCEPT ![file] = [Path |-> Rel(file), Content |-> NoContent]]
                 /\ wpc' = [wpc EXCEPT ![file] = IF readContent THEN "read" ELSE "lock"]
                 /\ UNCHANGED wg
    /\ UNCHANGED <<inputs, cpc, todo, walkErr, ret, wold, mu, files, chanClosed, rpc,
                   count, notes, stderrLines, outs>>

\* os.ReadFile and the isBinary test (readContent only)
Read(file, ok) ==
    /\ wpc[file] = "read"
    /\ IF ~ok
       THEN SkipReturn(file, "skipRead") /\ UNCHANGED wfc
       ELSE /\ wfc' = [wfc EXCEPT ![file].Content = ContentToAttach(disk[file])]
            /\ wpc' = [wpc EXCEPT ![file] = "lock"]
            /\ UNCHANGED wg
    /\ UNCHANGED <<inputs, cpc, todo, walkErr, ret, wold, mu, files, chanClosed, rpc,
                   count, notes, stderrLines, outs>>

\* a lock that never holds anybody back
LockFreeAlways == TRUE

\* when mu.Lock() of a worker may return
LockFree == ~mu

\* mu.Lock()
Lock(file) ==
    /\ wpc[file] = "lock"
    /\ LockFree
    /\ mu' = TRUE
    /\ wpc' = [wpc EXCEPT ![file] = "append"]
    /\ UNCHANGED <<inputs, cpc, todo, walkErr, ret, wfc, wold, wg, files, chanClosed,
                   rpc, count, notes, stderrLines, outs>>

\* append(*files, fileContent) reads the slice ...
AppendLoad(file) ==
    /\ wpc[file] = "append"
    /\ wold' = [wold EXCEPT ![file] = files]
    /\ wpc' = [wpc EXCEPT ![file] = "store"]
    /\ UNCHANGED <<inputs, cpc, todo, walkErr, ret, wfc, mu, wg, files, chanClosed,
                   rpc, count, notes, stderrLines, outs>>

\* ... and *files is assigned the longer slice; mu.Unlock()
AppendStore(file) ==
    /\ wpc[file] = "store"
    /\ files' = Append(wold[file], wfc[file])
    /\ wold' = [wold EXCEPT ![file] = <<>>]
    /\ mu' = FALSE
    /\ wpc' = [wpc EXCEPT ![file] = "send"]
    /\ UNCHANGED <<inputs, cpc, todo, walkErr, ret, wfc, wg, chanClosed, rpc, count,
                   notes, stderrLines, outs>>

-----------------------------------------------------------------------------
(* showProgress and the unbuffered progressChan.                           *)

\* a progressChan with a buffer: a send does not wait for the reporter
SendReadyBuffered == ~chanClosed

\* when a worker's progressChan <- relativePath may complete: progressChan is
\* made without a buffer, so only while the reporter waits in its range
SendReady == rpc = "recv" /\ ~chanClosed

\* a send that never reaches the reporter
DeliveredNothing(path) == notes

\* what the reporter has received once a send of path has completed
Delivered(path) == Append(notes, path)

\* progressChan <- relativePath meets the reporter's receive; processFile returns
SendProgress(file) ==
    /\ wpc[file] = "send"
    /\ SendReady
    /\ notes' = Delivered(wfc[file].Path)
    /\ rpc' = "counted"
    /\ Return(file, "returned")
    /\ UNCHANGED <<inputs, cpc, todo, walkErr, ret, wfc, wold, mu, files, chanClosed,
                   count, stderrLines, outs>>

\* the body of the range loop: count++ and the line on every ProgressEvery-th
ReporterCount ==
    /\ rpc = "counted"
    /\ count' = count + 1
    /\ stderrLines' = IF count' % ProgressEvery = 0
                      THEN Append(stderrLines, [n |-> count', final |-> FALSE])
                      ELSE stderrLines
    /\ rpc' = "recv"
    /\ UNCHANGED <<inputs, cpc, todo, walkErr, ret, wpc, wfc, wold, mu, wg, files,
                   chanClosed, notes, outs>>

\* variant: a loop that ends without waiting for the channel to be closed
RangeEndsAtOnce == TRUE

\* when the range over progressChan ends
RangeEnds == chanClosed

\* the range loop ends on the closed channel; the final summary is written
ReporterSummary ==
    /\ rpc = "recv"
    /\ RangeEnds
    /\ stderrLines' = Append(stderrLines, [n |-> count, final |-> TRUE])
    /\ rpc' = "signal"
    /\ UNCHANGED <<inputs, cpc, todo, walkErr, ret, wpc, wfc, wold, mu, wg, files,
                   chanClosed, count, notes, outs>>

-----------------------------------------------------------------------------

Worker(file) ==
    \/ \E ok \in BOOLEAN : Stat(file, ok)
    \/ \E ok \in BOOLEAN : Read(file, ok)
    \/ Lock(file)
    \/ AppendLoad(file)
    \/ AppendStore(file)
    \/ SendProgress(file)

Next ==
    \/ \E ok \in BOOLEAN : OpenRepo(ok)
    \/ WalkVisit
    \/ WalkError
    \/ WalkReturn
    \/ WaitWorkers
    \/ CloseProgress
    \/ ReceiveDone
    \/ CallFormatter
    \/ \E file \in AllFiles, ok \in BOOLEAN : Stat(file, ok)
    \/ \E file \in AllFiles, ok \in BOOLEAN : Read(file, ok)
    \/ \E file \in AllFiles : Lock(file)
    \/ \E file \in AllFiles : AppendLoad(file)
    \/ \E file \in AllFiles : AppendStore(file)
    \/ \E file \in AllFiles : SendProgress(file)
    \/ ReporterCount
    \/ ReporterSummary

Coordinator ==
    \/ \E ok \in BOOLEAN : OpenRepo(ok)
    \/ WalkVisit
    \/ WalkError
    \/ WalkReturn
    \/ WaitWorkers
    \/ CloseProgress
    \/ ReceiveDone
    \/ CallFormatter

Reporter == ReporterCount \/ ReporterSummary

Spec == Init /\ [][Next]_vars

\* the Go scheduler runs every goroutine that stays runnable
Fairness ==
    /\ WF_vars(Coordinator)
    /\ WF_vars(Reporter)
    /\ \A file \in AllFiles : WF_vars(Worker(file))

FairSpec == Spec /\ Fairness

(* The tree changing under the run: another process rewrites a file while its
   worker is between os.Stat and os.ReadFile. A change before the stat is a
   run on another tree, and a change after the read is not seen by the run. *)

\* what the rewritten file holds: text of one byte more than maxFileSize
Grown == Text(maxFileSize + 1)

FileGrows(file) ==
    /\ file \in DOMAIN disk
    /\ wpc[file] = "read"
    /\ disk[file] # Grown
    /\ disk' = [disk EXCEPT ![file] = Grown]
    /\ UNCHANGED <<baseName, format, customExcludePatterns, ignorePatterns, probe,
                   verdict, cpc, todo, walkErr, ret, wpc, wfc, wold, mu, wg, files,
                   chanClosed, rpc, count, notes, stderrLines, outs>>

RaceNext ==
    \/ Next
    \/ \E file \in AllFiles : FileGrows(file)

RaceSpec == Init /\ [][RaceNext]_vars

\* what wt.Excludes holds in the list scenario: nothing, or the pattern of the
\* tree's .gitignore
ScenarioIgnore == { <<>>, <<[glob |-> "*.log", negate |-> FALSE]>> }

\* the tree of the list scenario: a.txt, secrets.env, build/out.o, trace.log
\* and a .gitignore
ScenarioTree ==
    { <<".gitignore">>, <<"a.txt">>, <<"build", "out.o">>, <<"secrets.env">>,
      <<"trace.log">> }

ScenarioInit ==
    /\ baseName = "proj"
    /\ format \in Formats
    /\ customExcludePatterns = <<>>
    /\ ignorePatterns \in ScenarioIgnore
    /\ disk = [f \in ScenarioTree |-> InitialContent(f)]
    /\ probe = NoProbe
    /\ verdict = NoVerdict
    /\ Start

ScenarioSpec == ScenarioInit /\ [][Next]_vars

(* shouldExclude by itself: one call on a name and its relative path under
   some custom patterns and ignore patterns, and the same call after patterns
   were added to both lists. *)

\* name and relative path of the entries the call is made on
ProbeEntries ==
    { <<"a.txt", "a.txt">>, <<"main.go", "src/main.go">>,
      <<"notes.css", "src/notes.css">>, <<"debug.log", "src/debug.log">>,
      <<".env.local", ".env.local">>, <<".gitignore", ".gitignore">>,
      <<"build", "build">>, <<"out.o", "build/out.o">>,
      <<"x.go", "src/dist/x.go">>, <<"proj", ".">> }

ProbeCustom == { <<>>, <<"*.css">>, <<"a.txt">> }

ProbeMatcher ==
    { <<>>,
      <<[glob |-> "*.txt", negate |-> FALSE]>>,
      <<[glob |-> "src/*.go", negate |-> FALSE]>>,
      <<[glob |-> "*.txt", negate |-> FALSE], [glob |-> "a.txt", negate |-> TRUE]>> }

MoreCustom == { <<>>, <<"*.go">> }

MoreMatcher ==
    { <<>>,
      <<[glob |-> "*.txt", negate |-> FALSE]>>,
      <<[glob |-> "a.txt", negate |-> TRUE]>>,
      <<[glob |-> "*.log", negate |-> TRUE]>>,
      <<[glob |-> "src/main.go", negate |-> TRUE]>> }

ProbeInit ==
    /\ baseName = "proj"
    /\ format = "list"
    /\ customExcludePatterns = <<>>
    /\ ignorePatterns = <<>>
    /\ disk = [f \in FixedFiles |-> InitialContent(f)]
    /\ \E e \in ProbeEntries, c \in ProbeCustom, m \in ProbeMatcher,
          mc \in MoreCustom, mm \in MoreMatcher :
          probe = [name |-> e[1], relativePath |-> e[2], custom |-> c, matcher |-> m,
                   moreCustom |-> mc, moreMatcher |-> mm]
    /\ verdict = NoVerdict
    /\ Start

\* the call, and the call with the added patterns at the end of the lists
Evaluate ==
    /\ verdict = NoVerdict
    /\ verdict' =
          [evaluated |-> TRUE,
           before |-> shouldExcludeWith(probe.name, probe.relativePath,
                                        probe.custom, probe.matcher),
           after |-> shouldExcludeWith(probe.name, probe.relativePath,
                                       probe.custom \o probe.moreCustom,
                                       probe.matcher \o probe.moreMatcher)]
    /\ UNCHANGED <<baseName, format, customExcludePatterns, ignorePatterns, disk, probe,
                   cpc, todo, walkErr, ret, wpc, wfc, wold, mu, wg, files, chanClosed,
                   rpc, count, notes, stderrLines, outs>>

ProbeSpec == ProbeInit /\ [][Evaluate]_vars

-----------------------------------------------------------------------------
(* Properties.                                                             *)

\* the positions in a slice of the records of a file
RecordsOf(slice, file) == { i \in 1..Len(slice) : slice[i].Path = Rel(file) }

Dispatched == { f \in AllFiles : wpc[f] # "none" }

AllWorkersReturned == \A f \in Dispatched : wpc[f] \in Returned

\* the workers between mu.Lock() and mu.Unlock()
InCriticalSection == { f \in AllFiles : wpc[f] \in {"append", "store"} }

\* C1: the output function is called only after every worker goroutine the walk
\* dispatched has returned from processFile: from the moment listFiles reaches
\* its switch on format, no dispatched worker is running or has yet to append.
C1_FormatAfterWorkers ==
    (cpc = "format" \/ formatter # "none") => (AllWorkersReturned /\ wg = 0)

C1_Witness ==
    /\ formatter # "none"
    /\ Cardinality({ f \in Dispatched : wpc[f] = "returned" }) >= 2

\* C2: the slice handed to the output function holds exactly one record for
\* each dispatched file whose processFile was not skipped, none for any other
\* file, and no two records with the same path.
C2_ExactlyOneRecord ==
    formatter # "none" =>
        /\ \A f \in AllFiles :
              Cardinality(RecordsOf(output, f)) = IF wpc[f] = "returned" THEN 1 ELSE 0
        /\ Len(output) = Cardinality({ f \in AllFiles : wpc[f] = "returned" })

C2_Witness ==
    /\ formatter # "none"
    /\ Len(output) >= 2
    /\ \E f \in Dispatched : wpc[f] = "returned"

MutualExclusion ==
    /\ Cardinality(InCriticalSection) <= 1
    /\ mu <=> InCriticalSection # {}
    /\ \A f \in InCriticalSection : wpc[f] = "store" => wold[f] = files

\* a step of the worker of file f
WorkerStep(f) == wpc[f] # "none" /\ wpc'[f] # wpc[f]

\* what a worker's step writes besides its own locals and the mutex, the wait
\* group and the channel it synchronises on: the result slice, and only while
\* it holds the mutex
WritesOnlyFiles(f) ==
    /\ UNCHANGED <<inputs, cpc, todo, walkErr, ret, chanClosed, count, stderrLines, outs>>
    /\ \A g \in AllFiles \ {f} :
          wpc'[g] = wpc[g] /\ wfc'[g] = wfc[g] /\ wold'[g] = wold[g]
    /\ files' # files => (wpc[f] = "store" /\ mu)

\* C3: at most one worker at a time is between mu.Lock() and mu.Unlock(), the
\* slice it appends to is not changed by anybody else meanwhile, and the result
\* slice is the only state a worker's step writes that another worker writes too
\* (the mutex, the wait group and the channel apart).
C3_SingleAppender ==
    /\ []MutualExclusion
    /\ [][\A f \in AllFiles : WorkerStep(f) => WritesOnlyFiles(f)]_vars

C3_Witness ==
    \E f, g \in AllFiles : wpc[f] = "store" /\ wpc[g] = "lock"

\* one of the directories above the file (the scan root included) is excluded
UnderExcludedDir(file) ==
    \E n \in 0..(Len(file) - 1) :
        LET dir == SubSeq(file, 1, n) IN shouldExclude(Name(dir), Rel(dir))

\* C4: a directory the walk classifies as excluded is never descended into: for
\* a file anywhere below an excluded directory, processFile is never invoked and
\* no record is ever in the result slice or in the output.
C4_ExcludedDirPruned ==
    \A f \in AllFiles :
        (wpc[f] # "none" \/ RecordsOf(files, f) # {} \/ RecordsOf(output, f) # {})
            => ~UnderExcludedDir(f)

C4_Witness ==
    /\ ret = "formatter"
    /\ <<"src", "dist", "x.go">> \in DOMAIN disk
    /\ UnderExcludedDir(<<"src", "dist", "x.go">>)
    /\ ~UnderExcludedDir(<<"src", "main.go">>)
    /\ RecordsOf(output, <<"src", "main.go">>) # {}

\* the positions in what the reporter received of the notifications of a file
NotesOf(file) == { i \in 1..Len(notes) : notes[i] = Rel(file) }

\* C5 as stated: every invocation of processFile that has returned has sent
\* exactly one notification with the relative path, whatever the outcome.
C5_NotifyRegardless ==
    \A f \in AllFiles : wpc[f] \in Returned => Cardinality(NotesOf(f)) = 1

\* C5, amended: an invocation of processFile sends exactly one notification
\* with the relative path when it has appended a record (content read or not),
\* after the append, and none when it skips the file.
C5_NotifyOnlyAfterAppend ==
    \A f \in AllFiles :
        /\ Cardinality(NotesOf(f)) = IF wpc[f] = "returned" THEN 1 ELSE 0
        /\ NotesOf(f) # {} => RecordsOf(files, f) # {}

C5_Witness ==
    /\ format = "list"
    /\ \E f, g \in AllFiles :
          /\ wpc[f] = "returned" /\ NotesOf(f) # {}
          /\ wpc[g] \in Skipped /\ NotesOf(g) = {}

\* C6 as stated: the send of a worker that stands at progressChan <- relativePath
\* is enabled whatever the reporter is doing.
C6_SendNeverWaits ==
    \A f \in AllFiles : wpc[f] = "send" => SendReady

\* C6, amended: progressChan has no buffer, a send completes only by meeting the
\* reporter's receive (the reporter has at most the one received value not yet
\* counted); a worker at its send finds the reporter either at the receive or in
\* the loop body on its way back to the receive, and the channel open.
C6_SendMeetsReceive ==
    /\ Len(notes) = count + (IF rpc = "counted" THEN 1 ELSE 0)
    /\ \A f \in AllFiles :
          wpc[f] = "send" => (~chanClosed /\ rpc \in {"recv", "counted"})

C6_Witness ==
    \E f \in AllFiles : wpc[f] = "send" /\ rpc = "counted" /\ ~SendReady

SummaryWritten == \E i \in 1..Len(stderrLines) : stderrLines[i].final

FinishingOrder ==
    /\ chanClosed => (AllWorkersReturned /\ wg = 0 /\ cpc \notin {"open", "walk", "wait", "close"})
    /\ SummaryWritten => chanClosed
    /\ rpc = "exit" => SummaryWritten
    /\ (cpc = "format" \/ formatter # "none") => rpc = "exit"

\* C7: once the walk has returned without error the run finishes under fair
\* scheduling, and in this order: every dispatched worker returns, the
\* coordinator closes progressChan, the reporter writes its final summary and
\* signals on doneChan, the output function is called.
C7_RunFinishesInOrder ==
    /\ []FinishingOrder
    /\ (cpc = "wait") ~> (ret = "formatter")

C7_Witness ==
    /\ ret = "formatter"
    /\ SummaryWritten
    /\ Cardinality({ f \in Dispatched : wpc[f] \in Returned }) >= 2

\* a file is processed or has a record
Processed(f) ==
    wpc[f] # "none" \/ RecordsOf(files, f) # {} \/ RecordsOf(output, f) # {}

\* C8 as stated: a file whose base name ends with a built-in suffix, or whose
\* base name or relative path matches a custom glob, is never processed and
\* never has a record.
C8_NameOrPathGlobExcluded ==
    \A f \in DOMAIN disk :
        Processed(f) =>
            /\ ~ExcludedSuffixRule(Name(f))
            /\ \A i \in 1..Len(customExcludePatterns) :
                  /\ ~GlobMatch(customExcludePatterns[i], Name(f))
                  /\ ~GlobMatch(customExcludePatterns[i], Rel(f))

\* C8, amended: a file whose base name ends with a built-in suffix, or whose
\* relative path matches a custom glob, is excluded by the walk, so never
\* processed and never with a record, at any depth; the base name alone is not
\* matched against the custom globs.
C8_SuffixOrPathGlobExcluded ==
    \A f \in DOMAIN disk :
        Processed(f) =>
            /\ ~ExcludedSuffixRule(Name(f))
            /\ \A i \in 1..Len(customExcludePatterns) :
                  ~GlobMatch(customExcludePatterns[i], Rel(f))

C8_Witness ==
    /\ ret = "formatter"
    /\ <<"src", "notes.css">> \in DOMAIN disk
    /\ CustomPatternRule(customExcludePatterns, "src/notes.css")
    /\ ExcludedSuffixRule(Name(<<"src", "debug.log">>))
    /\ ~Processed(<<"src", "notes.css">>)
    /\ ~Processed(<<"src", "debug.log">>)
    /\ RecordsOf(output, <<"src", "main.go">>) # {}

\* C9: a walk-level error aborts the run without output: once the walk function
\* has returned an error, listFiles returns an error and no output function is
\* ever called, however many records the workers have appended.
C9_WalkErrorNoOutput ==
    walkErr =>
        /\ formatter = "none" /\ output = <<>>
        /\ cpc \in {"walk", "failed"}
        /\ cpc = "failed" => ret = "walkError"

C9_Witness ==
    ret = "walkError" /\ Len(files) >= 2

NoErrorFromWorkers ==
    /\ ret = "walkError" => walkErr
    /\ ret = "openError" => Dispatched = {}
    /\ formatter # "none" =>
          /\ ret = "formatter"
          /\ \A f \in AllFiles :
                /\ wpc[f] \in Skipped => RecordsOf(output, f) = {}
                /\ wpc[f] = "returned" => RecordsOf(output, f) # {}

\* C10: a failure in processFile (stat failure, oversize, read failure) never
\* fails the run: listFiles returns an error only for the repository or the
\* walk; with files skipped, a run whose walk succeeded still ends with
\* listFiles returning the output function's result, the skipped files without a
\* record and every other processed file with its record.
C10_PerFileFailureSwallowed ==
    /\ []NoErrorFromWorkers
    /\ (cpc = "wait" /\ \E f \in AllFiles : wpc[f] \in Skipped) ~> (ret = "formatter")

C10_Witness ==
    /\ ret = "formatter"
    /\ \E f, g \in AllFiles :
          /\ wpc[f] \in Skipped /\ RecordsOf(output, f) = {}
          /\ wpc[g] = "returned" /\ RecordsOf(output, g) # {}

-----------------------------------------------------------------------------
(* The records of a run as a set, and the set the tree and the parameters
   alone determine. *)

RecordSet(slice) == { slice[i] : i \in 1..Len(slice) }

\* the files the walk hands to a worker and the size check lets through, read
\* off the tree and the parameters, without any run
Eligible ==
    { f \in DOMAIN disk :
        /\ ~UnderExcludedDir(f)
        /\ ~shouldExclude(Name(f), Rel(f))
        /\ disk[f].len <= maxFileSize }

\* the record such a file gets under the run's format
RecordFor(f) ==
    [Path |-> Rel(f),
     Content |-> IF format = "list" \/ disk[f].nul \in 1..BinarySample
                 THEN NoContent ELSE disk[f]]

\* the files whose stat or read failed in this run
FailedIO == { f \in AllFiles : wpc[f] \in {"skipStat", "skipRead"} }

\* C11: runs over the same unmodified tree with the same parameters hand the
\* same set of records to the output function whatever the interleaving of the
\* workers: that set is the one the tree, the parameters and the outcome of each
\* file's stat and read determine, and no record is lost or doubled on the way.
C11_RecordSetDetermined ==
    formatter # "none" =>
        /\ RecordSet(output) = { RecordFor(f) : f \in Eligible \ FailedIO }
        /\ Len(output) = Cardinality(Eligible \ FailedIO)

C11_Witness ==
    /\ formatter # "none"
    /\ Len(output) = 2
    /\ output[1].Path = "src/main.go"
    /\ output[2].Path = "a.txt"

\* the worker of a file got past os.Stat without an error
StatSucceeded(f) == wpc[f] \notin {"none", "stat", "skipStat"}

\* C12: a file the walk does not exclude and whose size at processFile's stat
\* is exactly 1 MiB (1048576 bytes) is not skipped for its size and gets a
\* record; a file of 1 MiB + 1 byte or more is skipped at the size check and
\* never has a record, in the slice or in the output, under every format.
C12_SizeBoundary ==
    \A f \in AllFiles :
        StatSucceeded(f) =>
            /\ disk[f].len >= 1048576 + 1 =>
                  /\ wpc[f] = "skipSize"
                  /\ RecordsOf(files, f) = {}
                  /\ RecordsOf(output, f) = {}
            /\ disk[f].len <= 1048576 =>
                  /\ wpc[f] # "skipSize"
                  /\ wpc[f] = "returned" => RecordsOf(files, f) # {}
                  /\ (wpc[f] = "returned" /\ formatter # "none") =>
                        RecordsOf(output, f) # {}

C12_Witness ==
    /\ formatter # "none"
    /\ {<<"src", "main.go">>, <<"big.bin">>} \subseteq DOMAIN disk
    /\ disk[<<"src", "main.go">>].len = 1048576
    /\ RecordsOf(output, <<"src", "main.go">>) # {}
    /\ disk[<<"big.bin">>].len = 1048576 + 1
    /\ wpc[<<"big.bin">>] = "skipSize"

\* the offset of the first zero byte of a file, 0 when it has none
FirstNul(f) == disk[f].nul

C14_ListNeverReads ==
    format = "list" =>
        /\ \A f \in AllFiles :
              /\ wpc[f] \notin {"read", "skipRead"}
              /\ wpc[f] \in {"lock", "append", "store", "send"} =>
                    wfc[f].Content = NoContent
        /\ \A i \in 1..Len(files) : files[i].Content = NoContent
        /\ \A i \in 1..Len(output) : output[i].Content = NoContent

C14_Witness ==
    /\ format = "list"
    /\ formatter = "outputList"
    /\ \E i \in 1..Len(output) :
          /\ output[i].Path = "a.txt"
          /\ output[i].Content = NoContent
          /\ disk[<<"a.txt">>] = Text(5)
          /\ ~isBinary(disk[<<"a.txt">>])

\* the paths the output function was given
OutputPaths == { output[i].Path : i \in 1..Len(output) }

FixedRuleMatches ==
    \/ ExcludedDirRule(probe.name, probe.relativePath)
    \/ ExcludedSuffixRule(probe.name)
    \/ EnvPrefixRule(probe.name)
    \/ GitignoreNameRule(probe.name)

SomeRuleMatches ==
    \/ FixedRuleMatches
    \/ CustomPatternRule(probe.custom, probe.relativePath)
    \/ MatcherMatch(probe.matcher, probe.relativePath)

AddsNegated == \E n \in 1..Len(probe.moreMatcher) : probe.moreMatcher[n].negate

C17_NoOversizeContent ==
    /\ \A i \in 1..Len(files) :
          /\ files[i].Content.len <= 1048576
          /\ files[i].Content.nul \notin 1..1024
    /\ \A i \in 1..Len(output) :
          /\ output[i].Content.len <= 1048576
          /\ output[i].Content.nul \notin 1..1024

\* C18: the reporter's count never exceeds the number of records appended to
\* the result slice, a worker appending before it sends; and the final summary
\* reports a count equal to the number of records of the result slice.
C18_CountWithinRecords ==
    /\ count <= Len(files)
    /\ Len(notes) <= Len(files)
    /\ \A i \in 1..Len(stderrLines) :
          stderrLines[i].final =>
              /\ stderrLines[i].n = Len(files)
              /\ count = Len(files)

C18_Witness ==
    /\ \E i \in 1..Len(stderrLines) :
          stderrLines[i].final /\ stderrLines[i].n = 1
    /\ Len(files) = 1
    /\ \E f \in AllFiles : wpc[f] \in Skipped

\* the base name of the scan root matches one of the built-in rules
RootExcludedByName ==
    \/ ExcludedDirRule(baseName, ".")
    \/ ExcludedSuffixRule(baseName)
    \/ EnvPrefixRule(baseName)
    \/ GitignoreNameRule(baseName)

RootPruned ==
    RootExcludedByName =>
        /\ Dispatched = {}
        /\ wg = 0
        /\ files = <<>>
        /\ output = <<>>
        /\ todo \in {<<>>, <<Root>>}
        /\ ret \in {"none", "openError", "walkError", "formatter"}

\* C19: shouldExclude is applied to the scan root itself: when the root's base
\* name matches a built-in rule (out, or a name beginning with .env), the walk
\* prunes the root, no worker is ever dispatched, and a run whose walk returned
\* without error ends with the output function called on an empty result.
C19_ExcludedRootEmptyRun ==
    /\ []RootPruned
    /\ (RootExcludedByName /\ cpc = "wait") ~>
          (ret = "formatter" /\ formatter # "none" /\ output = <<>>)

C19_Witness ==
    /\ baseName \in {"out", ".env.ci"}
    /\ ret = "formatter"
    /\ output = <<>>
    /\ {<<"a.txt">>, <<"src", "main.go">>} \subseteq DOMAIN disk

\* listFiles has returned the walk's error
ReturnedWalkError == cpc = "failed" /\ ret = "walkError"

\* the workers still between their dispatch and their return
RunningWorkers == { f \in AllFiles : wpc[f] \notin {"none"} \cup Returned }

\* C20: when the walk returns an error, listFiles returns without waiting for
\* the workers it dispatched and without closing progressChan: from then on the
\* channel stays open, the reporter writes no final summary and never signals
\* on doneChan, the output function is never called, and the only steps left
\* are those of the workers still running (appends included) and of the
\* reporter counting what they send.
C20_WalkErrorLeavesWorkers ==
    /\ [](ReturnedWalkError =>
            /\ ~chanClosed
            /\ ~SummaryWritten
            /\ rpc \in {"recv", "counted"}
            /\ formatter = "none"
            /\ wg = Cardinality(RunningWorkers))
    /\ [][ReturnedWalkError =>
            /\ ReturnedWalkError'
            /\ UNCHANGED <<chanClosed, formatter, output>>
            /\ Len(files') >= Len(files)]_vars

\* listFiles has returned the error with one record appended, and another
\* worker is about to append its record
C20_Witness ==
    /\ ReturnedWalkError
    /\ Len(files) = 1
    /\ wg > 0
    /\ \E f \in AllFiles : wpc[f] = "store"

====
